---- MODULE Spec2Model ----
(***************************************************************************)
(* aiodbx: the request executor (RequestContext._do_request) and the       *)
(* upload-batch manager (AsyncDropboxAPI.upload_start / upload_finish /    *)
(* _upload_finish_check) of src/aiodbx/__init__.py.  src/aiodbx.py holds   *)
(* the same control flow under the names Request / ok_statuses.            *)
(*                                                                         *)
(* Every coroutine is a task; one action is the code a task runs between   *)
(* two suspension points (await) of the event loop, so the interleavings   *)
(* of the actions are the interleavings asyncio can produce.               *)
(***************************************************************************)
EXTENDS Integers, Sequences, FiniteSets, TLC

\* ---------------------------------------------------------------- bounds
NumTasks == 2
MaxSessions == 2
MaxPolls == 2
MaxRetryCount == 3

\* ------------------------------------------------------ program constants
BatchLimit == 1000
DefaultRetryCount == 5
DefaultSleep == 1
ErrorStatus == 400

Tasks == 1..NumTasks

\* The statuses the transport answers with: 200 (in the default ok set),
\* 202 (below 400, in no default set), 429 (the default retryable status).
Statuses == {200, 202, 429}
DefaultAccepted == {200}
DefaultRetryStatuses == {429}
\* allowed_retries values an AsyncDropboxAPI is constructed with
AllowedRetries == {1, 3, DefaultRetryCount}
\* retry_statuses values an AsyncDropboxAPI is constructed with
RetryConfigs == {DefaultRetryStatuses, {202, 429}}
\* Retry-After header: <<>> when absent, <<n>> when present with value n
RetryAfters == {<<>>, <<2>>}

LocalPaths == {"a", "gone"}
\* the sizes in bytes the local file "a" is given
FileSizes == {2, 3}
DropboxPath == "/a"

VARIABLES
    upload_session,  \* AsyncDropboxAPI.upload_session: the batch
    retry_statuses,  \* AsyncDropboxAPI.retry_statuses
    allowed_retries, \* AsyncDropboxAPI.allowed_retries
    reads_body,      \* whether the request executor reads every body
    fsize,           \* the local files: size in bytes, -1 when absent
    nextSession,     \* the server: next upload-session id to issue
    pc,              \* per task: where the coroutine is suspended
    op,              \* per task: the call it runs or ran last
    ctx,             \* per task: its RequestContext
    loc,             \* per task: the local variables of the call
    outcome,         \* per task: how its last call ended
    network,         \* per task: its request in flight at the transport
    submitted        \* history: the entries sent in a finish_batch body so far

vars == <<upload_session, retry_statuses, allowed_retries, reads_body, fsize,
          nextSession, pc, op, ctx, loc, outcome, network, submitted>>

\* ------------------------------------------------------------- data types
\* A list of commit entries is kept as the number of entries that earlier
\* uploads left in it (all alike, session 0) and the entries added since, in
\* order: the list is Prefill(earlier) \o recent.
NoBatch == [earlier |-> 0, recent |-> <<>>]

BatchLen(b) == b.earlier + Len(b.recent)

NoResp == [status |-> 0, retry_after |-> <<>>, ctype |-> "", tag |-> "",
           session_id |-> 0, entries |-> NoBatch]

\* the body of a request: the byte count of a file, or the entries of a batch
NoBody == [size |-> 0, entries |-> NoBatch]

NoCtx == [endpoint |-> "", body |-> NoBody, accepted |-> {},
          retry_statuses |-> {}, retry_count |-> 0, current_attempt |-> 0,
          resp |-> NoResp, hist |-> <<>>, afters |-> <<>>, sleeps |-> <<>>,
          open |-> {}]

NoReq == [endpoint |-> "", body |-> NoBody, attempt |-> 0]

NoLoc == [local_path |-> "", data |-> NoBody,
          polls |-> 0, pending |-> 0, in_progress |-> 0]

NoData == [form |-> "", tag |-> "", session_id |-> 0, entries |-> NoBatch]

NoOutcome == [kind |-> "none", status |-> 0, data |-> NoData, value |-> NoBatch,
              resp |-> NoResp]

\* RequestContext.__init__
NewContext(endpoint, body, accepted, retries, count) ==
    [endpoint |-> endpoint, body |-> body, accepted |-> accepted,
     retry_statuses |-> retries, retry_count |-> count, current_attempt |-> 0,
     resp |-> NoResp, hist |-> <<>>, afters |-> <<>>, sleeps |-> <<>>,
     open |-> {}]

\* AsyncDropboxAPI._request: retry_statuses of the client, accepted_statuses
\* [200], retry_count left at the default of RequestContext
ApiContext(endpoint, body) ==
    NewContext(endpoint, body, DefaultAccepted, retry_statuses,
               DefaultRetryCount)

\* mutant: the entries of a decoded body are dropped
ParseBodyNoEntries(r) ==
    IF r.ctype = "application/json"
    THEN [form |-> "dict", tag |-> r.tag, session_id |-> r.session_id,
          entries |-> NoBatch]
    ELSE [form |-> "str", tag |-> r.tag, session_id |-> 0, entries |-> NoBatch]

\* the body of a response as _do_request reads it: decoded when the content
\* type is application/json, raw text otherwise
ParseBody(r) ==
    IF r.ctype = "application/json"
    THEN [form |-> "dict", tag |-> r.tag, session_id |-> r.session_id,
          entries |-> r.entries]
    ELSE [form |-> "str", tag |-> r.tag, session_id |-> 0, entries |-> NoBatch]

\* mutant: only the statuses from 500 on count as errors
RespOkBelow500(r) == r.status < 500

\* aiohttp's ClientResponse.ok
RespOk(r) == r.status < ErrorStatus

Exists(p) == fsize[p] >= 0

\* the commit entry upload_start builds
Commit(sid, p) == [session_id |-> sid, offset |-> fsize[p], path |-> DropboxPath]

\* json.dumps({"entries": upload_session})
Serialise(batch) == [size |-> 0, entries |-> batch]

\* the bytes f.read() returns for local file p
FileBody(p) == [size |-> fsize[p], entries |-> NoBatch]

\* the FileMetadata list the server reports for a submitted body
MetadataOf(body) ==
    [earlier |-> body.entries.earlier,
     recent |-> [i \in 1..Len(body.entries.recent) |->
                    body.entries.recent[i].session_id]]

\* a batch left by n earlier uploads
Prefill(n) == [earlier |-> n, recent |-> <<>>]

\* the entries of a list, each named by the upload session it closes; the
\* entries of earlier uploads go by the name 0
EntryIds(b) ==
    (IF b.earlier > 0 THEN {0} ELSE {})
        \cup {b.recent[i].session_id : i \in 1..Len(b.recent)}


\* ----------------------------------------------------- the transport side
JsonType == "application/json"
TextType == "text/plain"

\* an error answer (status >= 400): rate limiting, with any body type
ErrorResps ==
    {[NoResp EXCEPT !.status = 429, !.retry_after = ra, !.ctype = ct,
                    !.tag = "too_many_requests"] :
        ra \in RetryAfters, ct \in {JsonType, TextType}}

\* a 202 answer: accepted for processing, no result in the body
PendingResps ==
    {[NoResp EXCEPT !.status = 202, !.ctype = JsonType, !.tag = "other"]}

Ok200(tag, sid, entries) ==
    [NoResp EXCEPT !.status = 200, !.ctype = JsonType, !.tag = tag,
                   !.session_id = sid, !.entries = entries]

\* upload_session/start: a fresh session id
StartResps ==
    IF nextSession <= MaxSessions THEN {Ok200("", nextSession, NoBatch)} ELSE {}

\* upload_session/finish_batch, for the request body `body`
FinishResps(body) ==
    {Ok200("complete", 0, MetadataOf(body)), Ok200("async_job_id", 0, NoBatch),
     Ok200("other", 0, NoBatch)}

\* upload_session/finish_batch/check: the job is answered with anything but
\* complete at most MaxPolls times
CheckResps(body, pending) ==
    {Ok200("complete", 0, MetadataOf(body))}
        \cup (IF pending < MaxPolls
              THEN {Ok200("in_progress", 0, NoBatch), Ok200("other", 0, NoBatch)}
              ELSE {})

\* a direct RequestContext: any status, either body type
ExecResps ==
    {[NoResp EXCEPT !.status = s, !.retry_after = ra, !.ctype = ct] :
        s \in Statuses, ra \in RetryAfters, ct \in {JsonType, TextType}}

Responses(t) ==
    CASE ctx[t].endpoint = "start" -> StartResps \cup PendingResps \cup ErrorResps
      [] ctx[t].endpoint = "finish" ->
            FinishResps(loc[t].data) \cup PendingResps \cup ErrorResps
      [] ctx[t].endpoint = "check" ->
            CheckResps(loc[t].data, loc[t].pending)
                \cup (IF loc[t].pending < MaxPolls THEN PendingResps ELSE {})
                \cup ErrorResps
      [] OTHER -> ExecResps

\* ------------------------------------------- RequestContext._do_request
\* mutant: a response that is still retryable when the attempts are used up
\* is raised as an error
ClassifyStrict(c, r) ==
    IF ~(r.status \in c.accepted) /\ ~RespOk(r) THEN "raise"
    ELSE IF r.status \in c.retry_statuses /\ ~(r.status \in c.accepted)
         THEN (IF c.current_attempt < c.retry_count THEN "retry" ELSE "raise")
         ELSE IF c.current_attempt < c.retry_count
                    /\ r.status \in c.retry_statuses
              THEN "retry"
              ELSE "return"

\* mutant: one more attempt is allowed than retry_count
ClassifyOneMore(c, r) ==
    IF ~(r.status \in c.accepted) /\ ~RespOk(r) THEN "raise"
    ELSE IF c.current_attempt <= c.retry_count /\ r.status \in c.retry_statuses
         THEN "retry"
         ELSE "return"

\* what _do_request does with response r on attempt c.current_attempt:
\* "raise" DropboxApiError, "retry" after a sleep, or "return" r
Classify(c, r) ==
    IF ~(r.status \in c.accepted) /\ ~RespOk(r) THEN "raise"
    ELSE IF c.current_attempt < c.retry_count /\ r.status \in c.retry_statuses
         THEN "retry"
         ELSE "return"

\* mutant: the Retry-After header is not looked at
SleepTimeDefault(r) == DefaultSleep

\* the backoff before the next attempt
SleepTime(r) ==
    IF r.retry_after # <<>> THEN r.retry_after[1] ELSE DefaultSleep

\* self.current_attempt += 1, then the request goes to the transport
Send(c) == [c EXCEPT !.current_attempt = @ + 1]

\* the request of the attempt c has just started
Wire(c) == [endpoint |-> c.endpoint, body |-> c.body, attempt |-> c.current_attempt]

\* the exception _do_request raises for r
ApiError(r) ==
    [NoOutcome EXCEPT !.kind = "DropboxApiError", !.status = r.status,
                      !.data = ParseBody(r), !.resp = r]

Raised(kind) == [NoOutcome EXCEPT !.kind = kind]

\* where the caller of _request goes on once the response is returned
Continuation(endpoint) ==
    CASE endpoint = "start" -> "up_parse"
      [] endpoint = "finish" -> "fin_parse"
      [] endpoint = "check" -> "chk_parse"
      [] endpoint = "scope" -> "with_body"
      [] OTHER -> "idle"

\* a RequestContext that was not made by _request: awaited ("exec") or
\* entered with async with ("scope") by the caller itself
Direct(c) == c.endpoint \in {"exec", "scope"}

\* the RequestContext of a call of the client is dropped when the call ends;
\* one that was used directly stays with its caller
Dropped(c) == IF Direct(c) THEN c ELSE [NoCtx EXCEPT !.open = c.open]

\* whether the body of a response is read to its end before _do_request is
\* done with it, which hands its connection back.  src/aiodbx/__init__.py
\* reads every body before it tests the status (reads_body); src/aiodbx.py
\* reads the body only to build the DropboxApiError it raises, and leaves the
\* body of a response it retries or returns unread (~reads_body).
BodyRead(verdict) == reads_body \/ verdict = "raise"

\* the responses still open once the response of attempt k has arrived
Received(open, k, read) == IF read THEN open ELSE open \cup {k}

\* __aexit__: self.resp, the response of attempt k that was returned, is
\* closed
Closed(open, k) == open \ {k}

\* a response arrives for the attempt in flight
ReqRespond(t) ==
    /\ pc[t] = "req_wait"
    /\ \E r \in Responses(t) :
        LET c == [ctx[t] EXCEPT !.hist = Append(@, r.status),
                                !.afters = Append(@, r.retry_after),
                                !.open = Received(@, ctx[t].current_attempt,
                                                  BodyRead(Classify(ctx[t], r)))]
            verdict == Classify(c, r)
        IN  /\ nextSession' = IF r.session_id # 0 THEN nextSession + 1
                              ELSE nextSession
            /\ CASE verdict = "raise" ->
                      /\ pc' = [pc EXCEPT ![t] = "idle"]
                      /\ ctx' = [ctx EXCEPT ![t] = Dropped(c)]
                      /\ loc' = [loc EXCEPT ![t] = NoLoc]
                      /\ outcome' = [outcome EXCEPT ![t] = ApiError(r)]
                 [] verdict = "retry" ->
                      /\ pc' = [pc EXCEPT ![t] = "req_sleep"]
                      /\ ctx' = [ctx EXCEPT ![t] =
                                   [c EXCEPT !.sleeps = Append(@, SleepTime(r))]]
                      /\ UNCHANGED <<outcome, loc>>
                 [] OTHER ->
                      /\ pc' = [pc EXCEPT ![t] = Continuation(c.endpoint)]
                      /\ ctx' = [ctx EXCEPT ![t] =
                                   [c EXCEPT !.resp = r,
                                             !.open =
                                                IF Direct(c) THEN @
                                                ELSE Closed(@, c.current_attempt)]]
                      /\ outcome' =
                           IF Direct(c)
                           THEN [outcome EXCEPT ![t] =
                                   [NoOutcome EXCEPT !.kind = "returned",
                                                     !.status = r.status,
                                                     !.resp = r]]
                           ELSE outcome
                      /\ UNCHANGED loc
    /\ network' = [network EXCEPT ![t] = NoReq]
    /\ UNCHANGED <<upload_session, retry_statuses, allowed_retries, reads_body, fsize, op, submitted>>

\* the backoff sleep is over: _do_request calls itself
ReqWake(t) ==
    /\ pc[t] = "req_sleep"
    /\ ctx' = [ctx EXCEPT ![t] = Send(@)]
    /\ network' = [network EXCEPT ![t] = Wire(Send(ctx[t]))]
    /\ pc' = [pc EXCEPT ![t] = "req_wait"]
    /\ UNCHANGED <<upload_session, retry_statuses, allowed_retries, reads_body, fsize, nextSession, op, loc,
                   outcome, submitted>>

\* await RequestContext(request, url, log, retry_count, retry_statuses,
\* accepted_statuses): the executor used on its own, each object awaited once
ExecStart(t) ==
    /\ pc[t] = "idle"
    /\ op[t] = "none"
    /\ \E a \in SUBSET Statuses, r \in SUBSET Statuses, n \in 0..MaxRetryCount :
        LET c == Send(NewContext("exec", NoBody, a, r, n))
        IN  /\ ctx' = [ctx EXCEPT ![t] = c]
            /\ network' = [network EXCEPT ![t] = Wire(c)]
    /\ op' = [op EXCEPT ![t] = "exec"]
    /\ loc' = [loc EXCEPT ![t] = NoLoc]
    /\ outcome' = [outcome EXCEPT ![t] = NoOutcome]
    /\ pc' = [pc EXCEPT ![t] = "req_wait"]
    /\ UNCHANGED <<upload_session, retry_statuses, allowed_retries, reads_body, fsize, nextSession, submitted>>

\* async with RequestContext(...) as resp: the executor used on its own with
\* a scope
WithStart(t) ==
    /\ pc[t] = "idle"
    /\ op[t] = "none"
    /\ \E a \in SUBSET Statuses, r \in SUBSET Statuses, n \in 0..MaxRetryCount :
        LET c == Send(NewContext("scope", NoBody, a, r, n))
        IN  /\ ctx' = [ctx EXCEPT ![t] = c]
            /\ network' = [network EXCEPT ![t] = Wire(c)]
    /\ op' = [op EXCEPT ![t] = "with"]
    /\ loc' = [loc EXCEPT ![t] = NoLoc]
    /\ outcome' = [outcome EXCEPT ![t] = NoOutcome]
    /\ pc' = [pc EXCEPT ![t] = "req_wait"]
    /\ UNCHANGED <<upload_session, retry_statuses, allowed_retries, reads_body,
                   fsize, nextSession, submitted>>

\* the body of the async with is left: __aexit__ closes self.resp
WithExit(t) ==
    /\ pc[t] = "with_body"
    /\ ctx' = [ctx EXCEPT ![t].open = Closed(@, ctx[t].current_attempt)]
    /\ pc' = [pc EXCEPT ![t] = "idle"]
    /\ UNCHANGED <<upload_session, retry_statuses, allowed_retries, reads_body,
                   fsize, nextSession, op, loc, outcome, network, submitted>>

\* ------------------------------------------ AsyncDropboxAPI.upload_start
\* mutant: the capacity test lets a batch of exactly BatchLimit entries pass
UploadPrecheckOffByOne(p, batch) ==
    IF ~Exists(p) THEN "ValueError"
    ELSE IF BatchLen(batch) > BatchLimit THEN "RuntimeError"
    ELSE "ok"

\* mutant: the capacity test comes before the test of the file
UploadPrecheckSizeFirst(p, batch) ==
    IF BatchLen(batch) >= BatchLimit THEN "RuntimeError"
    ELSE IF ~Exists(p) THEN "ValueError"
    ELSE "ok"

\* the checks upload_start makes before anything is sent
UploadPrecheck(p, batch) ==
    IF ~Exists(p) THEN "ValueError"
    ELSE IF BatchLen(batch) >= BatchLimit THEN "RuntimeError"
    ELSE "ok"

\* mutant: the commit is put in front of the list
AppendCommitFront(batch, commit) ==
    [batch EXCEPT !.recent = <<commit>> \o @]

\* self.upload_session.append(commit)
AppendCommit(batch, commit) == [batch EXCEPT !.recent = Append(@, commit)]

\* the call starts: the checks, then aiofiles.open is awaited
UploadStart(t) ==
    /\ pc[t] = "idle"
    /\ \E p \in LocalPaths :
        LET check == UploadPrecheck(p, upload_session)
        IN  /\ loc' = [loc EXCEPT ![t] = [NoLoc EXCEPT !.local_path = p]]
            /\ pc' = [pc EXCEPT ![t] = IF check = "ok" THEN "up_read" ELSE "idle"]
            /\ outcome' = [outcome EXCEPT ![t] =
                             IF check = "ok" THEN NoOutcome ELSE Raised(check)]
    /\ op' = [op EXCEPT ![t] = "upload"]
    /\ ctx' = [ctx EXCEPT ![t] = NoCtx]
    /\ UNCHANGED <<upload_session, retry_statuses, allowed_retries, reads_body, fsize, nextSession, network, submitted>>

\* mutant: the commit is appended when the request is sent
UploadReadAppends(t) ==
    /\ pc[t] = "up_read"
    /\ LET data == FileBody(loc[t].local_path)
           c == Send(ApiContext("start", data))
       IN  /\ loc' = [loc EXCEPT ![t].data = data]
           /\ ctx' = [ctx EXCEPT ![t] = c]
           /\ network' = [network EXCEPT ![t] = Wire(c)]
    /\ pc' = [pc EXCEPT ![t] = "req_wait"]
    /\ upload_session' =
          AppendCommit(upload_session, Commit(nextSession, loc[t].local_path))
    /\ UNCHANGED <<retry_statuses, allowed_retries, reads_body, fsize, nextSession, op,
                   outcome, submitted>>

\* the file is read; the session-start request goes out
UploadRead(t) ==
    /\ pc[t] = "up_read"
    /\ LET data == FileBody(loc[t].local_path)
           c == Send(ApiContext("start", data))
       IN  /\ loc' = [loc EXCEPT ![t].data = data]
           /\ ctx' = [ctx EXCEPT ![t] = c]
           /\ network' = [network EXCEPT ![t] = Wire(c)]
    /\ pc' = [pc EXCEPT ![t] = "req_wait"]
    /\ UNCHANGED <<upload_session, retry_statuses, allowed_retries, reads_body, fsize, nextSession, op,
                   outcome, submitted>>

\* resp.json() is read; the commit is built and appended
UploadParse(t) ==
    /\ pc[t] = "up_parse"
    /\ LET d == ParseBody(ctx[t].resp)
           commit == Commit(d.session_id, loc[t].local_path)
       IN  IF d.session_id = 0
           THEN /\ outcome' = [outcome EXCEPT ![t] = Raised("KeyError")]
                /\ UNCHANGED upload_session
           ELSE /\ upload_session' = AppendCommit(upload_session, commit)
                /\ outcome' = [outcome EXCEPT ![t] =
                                 [NoOutcome EXCEPT !.kind = "returned",
                                                   !.value = [NoBatch EXCEPT
                                                                !.recent = <<commit>>]]]
    /\ pc' = [pc EXCEPT ![t] = "idle"]
    /\ ctx' = [ctx EXCEPT ![t] = NoCtx]
    /\ loc' = [loc EXCEPT ![t] = NoLoc]
    /\ UNCHANGED <<retry_statuses, allowed_retries, reads_body, fsize, nextSession, op, network, submitted>>

\* ----------------------------------------- AsyncDropboxAPI.upload_finish
\* mutant: the test for an empty batch is missing
FinishPrecheckNone(batch) == "ok"

\* the check upload_finish makes before anything is sent
FinishPrecheck(batch) == IF BatchLen(batch) = 0 THEN "RuntimeError" ELSE "ok"

\* mutant: the batch is not emptied
ClearBatchKeep(batch) == batch

\* mutant: only the entries of earlier uploads are removed
ClearBatchPrefillOnly(batch) == [batch EXCEPT !.earlier = 0]

\* self.upload_session = []
ClearBatch(batch) == NoBatch

\* mutant: the batch is emptied when the request is sent
FinishStartClears(t) ==
    /\ pc[t] = "idle"
    /\ LET check == FinishPrecheck(upload_session)
       IN  IF check = "ok"
           THEN /\ loc' = [loc EXCEPT ![t] =
                             [NoLoc EXCEPT !.data = Serialise(upload_session)]]
                /\ ctx' = [ctx EXCEPT ![t] =
                             Send(ApiContext("finish", Serialise(upload_session)))]
                /\ network' = [network EXCEPT ![t] =
                      Wire(Send(ApiContext("finish", Serialise(upload_session))))]
                /\ pc' = [pc EXCEPT ![t] = "req_wait"]
                /\ outcome' = [outcome EXCEPT ![t] = NoOutcome]
                /\ submitted' = submitted \cup EntryIds(upload_session)
           ELSE /\ loc' = [loc EXCEPT ![t] = NoLoc]
                /\ UNCHANGED submitted
                /\ ctx' = [ctx EXCEPT ![t] = NoCtx]
                /\ UNCHANGED network
                /\ pc' = [pc EXCEPT ![t] = "idle"]
                /\ outcome' = [outcome EXCEPT ![t] = Raised(check)]
    /\ op' = [op EXCEPT ![t] = "finish"]
    /\ upload_session' = ClearBatch(upload_session)
    /\ UNCHANGED <<retry_statuses, allowed_retries, reads_body, fsize, nextSession>>
\* the call starts: the check, the body is serialised, the request goes out
FinishStart(t) ==
    /\ pc[t] = "idle"
    /\ LET check == FinishPrecheck(upload_session)
       IN  IF check = "ok"
           THEN /\ loc' = [loc EXCEPT ![t] =
                             [NoLoc EXCEPT !.data = Serialise(upload_session)]]
                /\ ctx' = [ctx EXCEPT ![t] =
                             Send(ApiContext("finish", Serialise(upload_session)))]
                /\ network' = [network EXCEPT ![t] =
                      Wire(Send(ApiContext("finish", Serialise(upload_session))))]
                /\ pc' = [pc EXCEPT ![t] = "req_wait"]
                /\ outcome' = [outcome EXCEPT ![t] = NoOutcome]
                /\ submitted' = submitted \cup EntryIds(upload_session)
           ELSE /\ loc' = [loc EXCEPT ![t] = NoLoc]
                /\ UNCHANGED submitted
                /\ ctx' = [ctx EXCEPT ![t] = NoCtx]
                /\ UNCHANGED network
                /\ pc' = [pc EXCEPT ![t] = "idle"]
                /\ outcome' = [outcome EXCEPT ![t] = Raised(check)]
    /\ op' = [op EXCEPT ![t] = "finish"]
    /\ UNCHANGED <<upload_session, retry_statuses, allowed_retries, reads_body, fsize, nextSession>>

\* resp.json() is read, the batch is emptied, the tag decides
FinishParse(t) ==
    /\ pc[t] = "fin_parse"
    /\ LET d == ParseBody(ctx[t].resp)
       IN  /\ upload_session' = ClearBatch(upload_session)
           /\ CASE d.tag = "async_job_id" ->
                     /\ pc' = [pc EXCEPT ![t] = "poll_sleep"]
                     /\ loc' = [loc EXCEPT ![t].polls = @ + 1]
                     /\ UNCHANGED outcome
                [] d.tag = "complete" ->
                     /\ pc' = [pc EXCEPT ![t] = "idle"]
                     /\ outcome' = [outcome EXCEPT ![t] =
                                      [NoOutcome EXCEPT !.kind = "returned",
                                                        !.value = d.entries]]
                     /\ loc' = [loc EXCEPT ![t] = NoLoc]
                [] OTHER ->
                     /\ pc' = [pc EXCEPT ![t] = "idle"]
                     /\ outcome' = [outcome EXCEPT ![t] =
                                      [NoOutcome EXCEPT
                                          !.kind = "DropboxApiError",
                                          !.status = ctx[t].resp.status,
                                          !.data = [NoData EXCEPT
                                                      !.form = "str",
                                                      !.tag = "unknown"]]]
                     /\ loc' = [loc EXCEPT ![t] = NoLoc]
    /\ ctx' = [ctx EXCEPT ![t] = NoCtx]
    /\ UNCHANGED <<retry_statuses, allowed_retries, reads_body, fsize, nextSession, op, network, submitted>>

\* ---------------------------------- AsyncDropboxAPI._upload_finish_check
\* asyncio.sleep(check_interval) is over: the check request goes out
PollWake(t) ==
    /\ pc[t] = "poll_sleep"
    /\ ctx' = [ctx EXCEPT ![t] = Send(ApiContext("check", NoBody))]
    /\ network' = [network EXCEPT ![t] = Wire(Send(ApiContext("check", NoBody)))]
    /\ pc' = [pc EXCEPT ![t] = "req_wait"]
    /\ UNCHANGED <<upload_session, retry_statuses, allowed_retries, reads_body, fsize, nextSession, op, loc,
                   outcome, submitted>>

\* mutant: the loop also ends on the tag in_progress
CheckDoneEarly(d) == d.tag \in {"complete", "in_progress"}

\* resp_data['.tag'] == 'complete': the loop of _upload_finish_check ends
CheckDone(d) == d.tag = "complete"

\* mutant: after an answer other than complete the next check request is
\* sent at once, with no sleep before it
CheckParseNoSleep(t) ==
    /\ pc[t] = "chk_parse"
    /\ LET d == ParseBody(ctx[t].resp)
       IN  IF CheckDone(d)
           THEN /\ pc' = [pc EXCEPT ![t] = "idle"]
                /\ outcome' = [outcome EXCEPT ![t] =
                                 [NoOutcome EXCEPT !.kind = "returned",
                                                   !.value = d.entries]]
                /\ loc' = [loc EXCEPT ![t] = NoLoc]
                /\ ctx' = [ctx EXCEPT ![t] = NoCtx]
                /\ UNCHANGED network
           ELSE /\ pc' = [pc EXCEPT ![t] = "req_wait"]
                /\ loc' = [loc EXCEPT ![t].pending = @ + 1,
                                      ![t].in_progress =
                                          IF d.tag = "in_progress" THEN @ + 1
                                          ELSE @]
                /\ ctx' = [ctx EXCEPT ![t] = Send(ApiContext("check", NoBody))]
                /\ network' = [network EXCEPT ![t] =
                                 Wire(Send(ApiContext("check", NoBody)))]
                /\ UNCHANGED outcome
    /\ UNCHANGED <<upload_session, retry_statuses, allowed_retries, reads_body, fsize, nextSession, op,
                   submitted>>

\* mutant: the batch is emptied when the job is complete
CheckParseClears(t) ==
    /\ pc[t] = "chk_parse"
    /\ LET d == ParseBody(ctx[t].resp)
       IN  IF CheckDone(d)
           THEN /\ pc' = [pc EXCEPT ![t] = "idle"]
                /\ outcome' = [outcome EXCEPT ![t] =
                                 [NoOutcome EXCEPT !.kind = "returned",
                                                   !.value = d.entries]]
                /\ loc' = [loc EXCEPT ![t] = NoLoc]
                /\ upload_session' = NoBatch
           ELSE /\ pc' = [pc EXCEPT ![t] = "poll_sleep"]
                /\ loc' = [loc EXCEPT ![t].polls = @ + 1, ![t].pending = @ + 1,
                                      ![t].in_progress =
                                          IF d.tag = "in_progress" THEN @ + 1
                                          ELSE @]
                /\ UNCHANGED <<outcome, upload_session>>
    /\ ctx' = [ctx EXCEPT ![t] = NoCtx]
    /\ UNCHANGED <<retry_statuses, allowed_retries, reads_body, fsize, nextSession, op, network, submitted>>

\* resp.json() of the check is read: return on complete, else sleep again
CheckParse(t) ==
    /\ pc[t] = "chk_parse"
    /\ LET d == ParseBody(ctx[t].resp)
       IN  IF CheckDone(d)
           THEN /\ pc' = [pc EXCEPT ![t] = "idle"]
                /\ outcome' = [outcome EXCEPT ![t] =
                                 [NoOutcome EXCEPT !.kind = "returned",
                                                   !.value = d.entries]]
                /\ loc' = [loc EXCEPT ![t] = NoLoc]
           ELSE /\ pc' = [pc EXCEPT ![t] = "poll_sleep"]
                /\ loc' = [loc EXCEPT ![t].polls = @ + 1, ![t].pending = @ + 1,
                                      ![t].in_progress =
                                          IF d.tag = "in_progress" THEN @ + 1
                                          ELSE @]
                /\ UNCHANGED outcome
    /\ ctx' = [ctx EXCEPT ![t] = NoCtx]
    /\ UNCHANGED <<upload_session, retry_statuses, allowed_retries, reads_body, fsize, nextSession, op,
                   network, submitted>>

\* ---------------------------------------------------------- environment
\* another actor rewrites the local file "a": its size changes
FileChange ==
    /\ \E n \in FileSizes \ {fsize["a"]} : fsize' = [fsize EXCEPT !["a"] = n]
    /\ UNCHANGED <<upload_session, retry_statuses, allowed_retries, reads_body, nextSession, pc, op, ctx,
                   loc, outcome, network, submitted>>

\* the caller cancels the call of task t: CancelledError is raised at the
\* await the call is suspended in, and nothing of the call runs after it
Cancel(t) ==
    /\ pc[t] # "idle"
    /\ pc' = [pc EXCEPT ![t] = "idle"]
    /\ outcome' = [outcome EXCEPT ![t] = Raised("CancelledError")]
    /\ ctx' = [ctx EXCEPT ![t] = Dropped(@)]
    /\ loc' = [loc EXCEPT ![t] = NoLoc]
    /\ network' = [network EXCEPT ![t] = NoReq]
    /\ UNCHANGED <<upload_session, retry_statuses, allowed_retries, reads_body, fsize, nextSession, op,
                   submitted>>

\* ------------------------------------------------------- specifications
InitSizes == {0, BatchLimit - 1}

InitTasks ==
    /\ fsize = [p \in LocalPaths |-> IF p = "a" THEN 2 ELSE -1]
    /\ nextSession = 1
    /\ pc = [t \in Tasks |-> "idle"]
    /\ op = [t \in Tasks |-> "none"]
    /\ ctx = [t \in Tasks |-> NoCtx]
    /\ loc = [t \in Tasks |-> NoLoc]
    /\ outcome = [t \in Tasks |-> NoOutcome]
    /\ network = [t \in Tasks |-> NoReq]
    /\ submitted = {}

\* a client just constructed, or one that earlier uploads have filled
Init ==
    /\ upload_session \in {Prefill(n) : n \in InitSizes}
    /\ retry_statuses \in RetryConfigs
    /\ allowed_retries = DefaultRetryCount
    /\ reads_body = TRUE
    /\ InitTasks

Step(t) ==
    \/ UploadStart(t)
    \/ UploadRead(t)
    \/ UploadParse(t)
    \/ FinishStart(t)
    \/ FinishParse(t)
    \/ PollWake(t)
    \/ CheckParse(t)
    \/ ReqRespond(t)
    \/ ReqWake(t)

\* any number of calls running concurrently on one client
Next == \E t \in Tasks : Step(t)

Spec == Init /\ [][Next]_vars

\* one caller that awaits each call before it makes the next
NextSeq == \E t \in {1} : Step(t)

SpecSeq == Init /\ [][NextSeq]_vars

\* one caller, and the event loop resumes a polling call whose sleep is over
\* or whose check response is ready to be read
SpecLive ==
    /\ Init /\ [][NextSeq]_vars
    /\ \A t \in {1} : WF_vars(PollWake(t)) /\ WF_vars(CheckParse(t))

\* one caller, and a local file that other programs write to
NextFile == NextSeq \/ FileChange

SpecFile == Init /\ [][NextFile]_vars

\* one caller that may cancel the call it awaits
NextCancel == \E t \in {1} : Step(t) \/ Cancel(t)

SpecCancel == Init /\ [][NextCancel]_vars

\* a client constructed with any allowed_retries
InitClient ==
    /\ upload_session \in {Prefill(n) : n \in InitSizes}
    /\ retry_statuses \in RetryConfigs
    /\ allowed_retries \in AllowedRetries
    /\ reads_body = TRUE
    /\ InitTasks

\* one caller on such a client
SpecClient == InitClient /\ [][NextSeq]_vars

\* the request executor used on its own
InitExec ==
    /\ upload_session = NoBatch
    /\ retry_statuses = DefaultRetryStatuses
    /\ allowed_retries = DefaultRetryCount
    /\ reads_body = TRUE
    /\ InitTasks

NextExec == \E t \in {1} : ExecStart(t) \/ ReqRespond(t) \/ ReqWake(t)

SpecExec == InitExec /\ [][NextExec]_vars

\* the request executor of either source file, used on its own with a scope
InitRequest ==
    /\ upload_session = NoBatch
    /\ retry_statuses = DefaultRetryStatuses
    /\ allowed_retries = DefaultRetryCount
    /\ reads_body \in BOOLEAN
    /\ InitTasks

NextRequest ==
    \E t \in {1} : WithStart(t) \/ ReqRespond(t) \/ ReqWake(t) \/ WithExit(t)

SpecRequest == InitRequest /\ [][NextRequest]_vars

\* the request executor with a transport that answers every request, and an
\* event loop that ends every sleep
SpecExecLive ==
    /\ InitExec /\ [][NextExec]_vars
    /\ \A t \in {1} : WF_vars(ReqRespond(t)) /\ WF_vars(ReqWake(t))


\* ------------------------------------------------------------ properties
Last(q) == q[Len(q)]

\* C1: under every interleaving of concurrent upload_start calls the batch
\* never holds more than 1000 entries.
C1_BatchNeverExceedsLimit == BatchLen(upload_session) <= BatchLimit

\* C2: a caller that makes its upload_start calls one after the other, on an
\* existing file: with fewer than 1000 entries in the batch the call gets past
\* its checks, nothing but its own append changes the batch, and when the
\* session-start request has succeeded it returns the new commit, which is
\* then the last entry of a batch one longer, all earlier entries as before.
C2_SequentialUploadAppends ==
    [][\A t \in Tasks :
        /\ (UploadStart(t) /\ Exists(loc'[t].local_path)
                /\ BatchLen(upload_session) < BatchLimit)
              => (pc'[t] = "up_read" /\ upload_session' = upload_session)
        /\ (op[t] = "upload" /\ pc[t] \in {"up_read", "req_wait", "req_sleep"})
              => upload_session' = upload_session
        /\ (pc[t] = "up_parse" /\ ctx[t].resp.session_id # 0)
              => /\ BatchLen(upload_session) < BatchLimit
                 /\ pc'[t] = "idle"
                 /\ outcome'[t].kind = "returned"
                 /\ BatchLen(upload_session') = BatchLen(upload_session) + 1
                 /\ upload_session'.earlier = upload_session.earlier
                 /\ upload_session'.recent =
                       upload_session.recent \o outcome'[t].value.recent
                 /\ Len(outcome'[t].value.recent) = 1
                 /\ Last(upload_session'.recent).session_id
                       = ctx[t].resp.session_id
      ]_vars

\* a second sequential upload has returned: its commit follows the first
C2_Witness ==
    \E t \in Tasks :
        /\ op[t] = "upload" /\ pc[t] = "idle" /\ outcome[t].kind = "returned"
        /\ Len(upload_session.recent) = 2
        /\ upload_session.recent[2] = outcome[t].value.recent[1]
        /\ upload_session.recent[2] # upload_session.recent[1]

\* C3 as stated: whenever the batch holds 1000 entries, upload_start fails with
\* RuntimeError, sends nothing and leaves the batch as it is.
C3_FullBatchAlwaysRuntimeError ==
    [][\A t \in Tasks :
        (UploadStart(t) /\ BatchLen(upload_session) >= BatchLimit)
          => /\ outcome'[t].kind = "RuntimeError"
             /\ pc'[t] = "idle"
             /\ network' = network
             /\ upload_session' = upload_session
      ]_vars

\* C3 amended: whenever the batch holds 1000 entries, upload_start on an
\* existing local file fails with RuntimeError, sends nothing and leaves the
\* batch as it is.
C3_FullBatchRuntimeError ==
    [][\A t \in Tasks :
        (UploadStart(t) /\ BatchLen(upload_session) >= BatchLimit
            /\ Exists(loc'[t].local_path))
          => /\ outcome'[t].kind = "RuntimeError"
             /\ pc'[t] = "idle"
             /\ network' = network
             /\ ctx'[t].current_attempt = 0
             /\ upload_session' = upload_session
      ]_vars

\* upload_start on the existing file has just failed on a batch of 1000
C3_Witness ==
    \E t \in Tasks :
        /\ op[t] = "upload" /\ pc[t] = "idle"
        /\ outcome[t].kind = "RuntimeError"
        /\ loc[t].local_path = "a"
        /\ BatchLen(upload_session) = BatchLimit

\* C4: upload_finish on an empty batch fails with RuntimeError, sends nothing
\* and leaves the batch empty.
C4_EmptyBatchRuntimeError ==
    [][\A t \in Tasks :
        (FinishStart(t) /\ BatchLen(upload_session) = 0)
          => /\ outcome'[t].kind = "RuntimeError"
             /\ pc'[t] = "idle"
             /\ network' = network
             /\ ctx'[t].current_attempt = 0
             /\ upload_session' = NoBatch
      ]_vars

\* upload_finish has just failed on the empty batch
C4_Witness ==
    \E t \in Tasks :
        /\ op[t] = "finish" /\ pc[t] = "idle"
        /\ outcome[t].kind = "RuntimeError"
        /\ BatchLen(upload_session) = 0

\* C5: upload_start on a local file that does not exist fails at once with
\* ValueError, sends nothing, makes no attempt and leaves the batch as it is,
\* whatever the size of the batch.
C5_MissingFileValueError ==
    [][\A t \in Tasks :
        (UploadStart(t) /\ ~Exists(loc'[t].local_path))
          => /\ outcome'[t].kind = "ValueError"
             /\ pc'[t] = "idle"
             /\ network' = network
             /\ ctx'[t].current_attempt = 0
             /\ upload_session' = upload_session
      ]_vars

\* upload_start on the missing file has just failed on a full batch
C5_Witness ==
    \E t \in Tasks :
        /\ op[t] = "upload" /\ pc[t] = "idle"
        /\ outcome[t].kind = "ValueError"
        /\ loc[t].local_path = "gone"
        /\ BatchLen(upload_session) = BatchLimit


\* the statuses a RequestContext c is to retry and does not accept
Retryable(c, s) == s \in c.retry_statuses /\ ~(s \in c.accepted)

\* the exception carries the body of its response as the content type says
BodyParsed(o) ==
    /\ o.data.form = (IF o.resp.ctype = JsonType THEN "dict" ELSE "str")
    /\ o.data.tag = o.resp.tag

\* C6: a response with a status of the retryable set outside the ok set, on
\* an attempt that is not the last, is never raised: _do_request sleeps and
\* sends again; after k such responses and an ok one it returns the ok
\* response on attempt k+1, having slept k times.
C6_RetryableAbsorbed ==
    \A t \in Tasks :
        op[t] = "exec" =>
            LET c == ctx[t]
                h == c.hist
            IN  /\ \A i \in 1..Len(h) :
                      (Retryable(c, h[i]) /\ i < c.retry_count)
                        => /\ Len(c.sleeps) >= i
                           /\ (c.current_attempt > i \/ pc[t] = "req_sleep")
                /\ (/\ outcome[t].kind = "returned"
                    /\ Len(h) <= c.retry_count
                    /\ \A i \in 1..(Len(h) - 1) : Retryable(c, h[i])
                    /\ Last(h) \in c.accepted)
                        => /\ outcome[t].resp.status = Last(h)
                           /\ c.current_attempt = Len(h)
                           /\ Len(c.sleeps) = Len(h) - 1

\* C7: a response with a status of the ok set ends the call at once: it is
\* returned, with no sleep and no send after it, also when the status is in
\* the retryable set and attempts remain.
C7_OkReturnedAtOnce ==
    \A t \in Tasks :
        op[t] = "exec" =>
            LET c == ctx[t]
                h == c.hist
            IN  \A i \in 1..Len(h) :
                    h[i] \in c.accepted
                      => /\ i = Len(h)
                         /\ pc[t] = "idle"
                         /\ outcome[t].kind = "returned"
                         /\ outcome[t].resp.status = h[i]
                         /\ c.current_attempt = i
                         /\ Len(c.sleeps) = i - 1

C9_ExhaustedRetryableReturned ==
    \A t \in Tasks :
        (/\ op[t] = "exec" /\ pc[t] = "idle"
         /\ outcome[t].kind # "none"
         /\ Len(ctx[t].hist) = ctx[t].retry_count
         /\ Retryable(ctx[t], Last(ctx[t].hist)))
          => /\ outcome[t].kind = "returned"
             /\ outcome[t].resp.status = Last(ctx[t].hist)

\* C9 amended: when the last allowed attempt is answered with a status below
\* 400 of the retryable set outside the ok set, that response is returned as
\* it is, not raised.
C9_ExhaustedRetryableBelow400Returned ==
    \A t \in Tasks :
        (/\ op[t] = "exec"
         /\ Len(ctx[t].hist) >= 1
         /\ Len(ctx[t].hist) = ctx[t].retry_count
         /\ Retryable(ctx[t], Last(ctx[t].hist))
         /\ Last(ctx[t].hist) < ErrorStatus)
          => /\ pc[t] = "idle"
             /\ outcome[t].kind = "returned"
             /\ outcome[t].resp.status = Last(ctx[t].hist)
             /\ outcome[t].resp = ctx[t].resp

\* three attempts were all answered 202, retryable and not accepted, and the
\* third answer has been returned
C9_Witness ==
    \E t \in Tasks :
        /\ op[t] = "exec" /\ pc[t] = "idle"
        /\ outcome[t].kind = "returned"
        /\ ctx[t].retry_count = 3
        /\ ctx[t].hist = <<202, 202, 202>>
        /\ Retryable(ctx[t], 202)
        /\ outcome[t].resp.status = 202


\* C10: when upload_finish takes up the answer to its submission, tagged
\* complete or async_job_id, the batch is emptied in that same step, before
\* anything else: on complete the call returns; on async_job_id the first
\* poll sleep begins with the batch empty and no check request sent yet, and
\* the batch is empty all through the polling of a caller that makes no other
\* call meanwhile.
C10_BatchEmptyOnceSubmitted ==
    [][\A t \in Tasks :
        /\ (/\ pc[t] = "fin_parse" /\ pc'[t] # "fin_parse"
            /\ ctx[t].resp.ctype = JsonType
            /\ ctx[t].resp.tag \in {"complete", "async_job_id"})
              => /\ BatchLen(upload_session) > 0
                 /\ BatchLen(upload_session') = 0
                 /\ upload_session' = NoBatch
                 /\ ctx[t].resp.tag = "complete"
                       => (pc'[t] = "idle" /\ outcome'[t].kind = "returned")
                 /\ ctx[t].resp.tag = "async_job_id"
                       => /\ pc'[t] = "poll_sleep"
                          /\ loc'[t].polls = 1
                          /\ network'[t] = NoReq
        /\ (\/ pc'[t] \in {"poll_sleep", "chk_parse"}
            \/ network'[t].endpoint = "check"
            \/ (op'[t] = "finish" /\ outcome'[t].kind = "returned"))
              => upload_session' = NoBatch
      ]_vars

\* a submitted batch is being polled for: the first poll sleep has begun and
\* the batch is empty
C10_Witness ==
    \E t \in Tasks :
        /\ op[t] = "finish" /\ pc[t] = "poll_sleep"
        /\ loc[t].polls = 1
        /\ BatchLen(loc[t].data.entries) > 0
        /\ upload_session = NoBatch


\* C11 (as stated): when the submission is answered async_job_id and the check
\* endpoint answers in_progress n times and then complete, upload_finish
\* returns the entries of the complete answer after exactly n poll sleeps.
C11_ReturnsAfterNSleeps ==
    [][\A t \in Tasks :
        (/\ CheckParse(t)
         /\ ParseBody(ctx[t].resp).tag = "complete"
         /\ loc[t].pending = loc[t].in_progress)
          => /\ outcome'[t].kind = "returned"
             /\ outcome'[t].value = ctx[t].resp.entries
             /\ loc[t].polls = loc[t].in_progress
      ]_vars

\* C11 (amended): under the same answers upload_finish returns the entries of
\* the complete answer after exactly n + 1 poll sleeps, one before each of
\* the n + 1 check requests.
C11_ReturnsAfterNPlusOneSleeps ==
    [][\A t \in Tasks :
        (/\ CheckParse(t)
         /\ ParseBody(ctx[t].resp).tag = "complete"
         /\ loc[t].pending = loc[t].in_progress)
          => /\ outcome'[t].kind = "returned"
             /\ outcome'[t].value = ctx[t].resp.entries
             /\ loc[t].polls = loc[t].in_progress + 1
      ]_vars

\* the check endpoint has answered in_progress, in_progress, complete, and
\* the complete answer is with the polling call
C11_Witness ==
    \E t \in Tasks :
        /\ op[t] = "finish" /\ pc[t] = "chk_parse"
        /\ ParseBody(ctx[t].resp).tag = "complete"
        /\ loc[t].in_progress = 2 /\ loc[t].pending = 2

\* C12: an upload_finish that follows at once on an upload_finish that
\* returned, with no upload_start in between, fails with RuntimeError (the
\* batch is empty) and sends no request.
C12_SecondFinishFails ==
    [][\A t \in Tasks :
        (/\ FinishStart(t)
         /\ op[t] = "finish"
         /\ outcome[t].kind = "returned")
          => /\ outcome'[t] = Raised("RuntimeError")
             /\ pc'[t] = "idle"
             /\ network' = network
             /\ ctx'[t] = NoCtx
             /\ submitted' = submitted
             /\ upload_session' = upload_session
      ]_vars

\* an upload_finish has failed with RuntimeError on a batch that an earlier
\* upload_finish submitted and emptied
C12_Witness ==
    \E t \in Tasks :
        /\ op[t] = "finish" /\ pc[t] = "idle"
        /\ outcome[t] = Raised("RuntimeError")
        /\ submitted # {}
        /\ upload_session = NoBatch

\* C13: when the submission is answered with tag complete, upload_finish
\* returns exactly the entries of that answer, without a poll sleep and
\* without a check request.
C13_CompleteReturnsEntries ==
    [][\A t \in Tasks :
        (/\ FinishParse(t)
         /\ ctx[t].resp.ctype = JsonType
         /\ ctx[t].resp.tag = "complete")
          => /\ outcome'[t].kind = "returned"
             /\ outcome'[t].value = ctx[t].resp.entries
             /\ pc'[t] = "idle"
             /\ loc[t].polls = 0 /\ loc'[t].polls = 0
             /\ network[t] = NoReq /\ network' = network
      ]_vars

\* the submission of a batch has been answered with tag complete and the
\* metadata of its entries
C13_Witness ==
    \E t \in Tasks :
        /\ op[t] = "finish" /\ pc[t] = "fin_parse"
        /\ ctx[t].resp.tag = "complete"
        /\ BatchLen(ctx[t].resp.entries) > 0
        /\ ctx[t].resp.entries = MetadataOf(loc[t].data)

\* C14: in the loop of _upload_finish_check the call does not return on an
\* in_progress answer but sleeps again; every check request is sent from a
\* poll sleep, one sleep for each request; a complete answer makes the call
\* return its entries; and, the polling call being scheduled fairly, a sleep
\* leads to a check request and a complete answer leads to the return.
C14_PollingLoop ==
    /\ [][\A t \in Tasks :
            /\ (CheckParse(t) /\ ParseBody(ctx[t].resp).tag = "in_progress")
                  => /\ pc'[t] = "poll_sleep"
                     /\ outcome'[t] = NoOutcome
                     /\ loc'[t].polls = loc[t].polls + 1
            /\ (/\ network'[t].endpoint = "check"
                /\ network[t] = NoReq
                /\ network'[t].attempt = 1)
                  => /\ pc[t] = "poll_sleep"
                     /\ loc[t].polls = loc[t].pending + 1
            /\ (CheckParse(t) /\ ParseBody(ctx[t].resp).tag = "complete")
                  => /\ outcome'[t].kind = "returned"
                     /\ outcome'[t].value = ctx[t].resp.entries
         ]_vars
    /\ \A t \in Tasks :
          (pc[t] = "poll_sleep") ~> (network[t].endpoint = "check")
    /\ \A t \in Tasks :
          (pc[t] = "chk_parse" /\ ParseBody(ctx[t].resp).tag = "complete")
             ~> (op[t] = "finish" /\ pc[t] = "idle"
                 /\ outcome[t].kind = "returned")

\* the check endpoint has answered in_progress and the call sleeps a second
\* time
C14_Witness ==
    \E t \in Tasks :
        /\ op[t] = "finish" /\ pc[t] = "poll_sleep"
        /\ loc[t].in_progress = 1 /\ loc[t].polls = 2

\* C15: the commit upload_start appends has an offset equal to the number of
\* bytes sent in the session-start request of that call, also when the local
\* file is rewritten between the read and the construction of the commit.
C15_OffsetIsBytesSent ==
    [][\A t \in Tasks :
        (UploadParse(t) /\ outcome'[t].kind = "returned")
          => /\ Last(upload_session'.recent).offset = ctx[t].body.size
             /\ Last(outcome'[t].value.recent).offset = ctx[t].body.size
      ]_vars

\* the call of task t is in _upload_finish_check
Polling(t) == op[t] = "finish" /\ loc[t].polls >= 1

\* C16: while an upload_finish call polls for its job, (a) no step of that
\* call changes the batch, and the batch holds none of the entries it
\* submitted; (b) an upload_start of another caller is not refused on an
\* existing file and a batch below the limit, and on a session-start answer
\* with a session id it appends its commit and returns it; (c) the call
\* returns the entries of the complete answer, which are the metadata of the
\* batch it submitted, and the entries appended meanwhile are still there.
C16_NewBatchSurvivesPolling ==
    [][\A t \in Tasks :
        Polling(t) =>
          /\ (pc'[t] # pc[t]) => upload_session' = upload_session
          /\ EntryIds(upload_session) \cap EntryIds(loc[t].data.entries) = {}
          /\ \A u \in Tasks \ {t} :
                /\ (/\ pc[u] = "idle" /\ op'[u] = "upload"
                    /\ <<pc'[u], op'[u], loc'[u], outcome'[u]>>
                          # <<pc[u], op[u], loc[u], outcome[u]>>
                    /\ Exists(loc'[u].local_path)
                    /\ BatchLen(upload_session) < BatchLimit)
                      => (pc'[u] = "up_read" /\ outcome'[u] = NoOutcome)
                /\ (/\ pc[u] = "up_parse" /\ pc'[u] # "up_parse"
                    /\ ParseBody(ctx[u].resp).session_id # 0)
                      => /\ outcome'[u].kind = "returned"
                         /\ upload_session' =
                               AppendCommit(upload_session,
                                            Last(outcome'[u].value.recent))
          /\ (/\ pc[t] = "chk_parse" /\ pc'[t] # "chk_parse"
              /\ ParseBody(ctx[t].resp).tag = "complete")
                => /\ pc'[t] = "idle"
                   /\ outcome'[t].kind = "returned"
                   /\ outcome'[t].value = ctx[t].resp.entries
                   /\ outcome'[t].value = MetadataOf(loc[t].data)
      ]_vars

\* a polling upload_finish holds the complete answer for the batch it
\* submitted, and the batch holds a commit that another caller's upload_start
\* appended during the polling
C16_Witness ==
    \E t \in Tasks, u \in Tasks :
        /\ t # u
        /\ Polling(t) /\ pc[t] = "chk_parse"
        /\ ParseBody(ctx[t].resp).tag = "complete"
        /\ op[u] = "upload" /\ outcome[u].kind = "returned"
        /\ upload_session.recent # <<>>
        /\ Last(upload_session.recent) = Last(outcome[u].value.recent)
        /\ BatchLen(loc[t].data.entries) > 0

\* C17: a cancellation of upload_finish at any await after the submission
\* request was sent finds the batch holding none of the submitted entries,
\* and leaves it so.
C17_CancelFindsBatchCleared ==
    [][\A t \in Tasks :
        (/\ op[t] = "finish" /\ pc[t] # "idle"
         /\ outcome'[t] = Raised("CancelledError"))
          => /\ EntryIds(upload_session) \cap EntryIds(loc[t].data.entries) = {}
             /\ upload_session' = upload_session
      ]_vars

\* C18: every step leaves the batch as it is, or appends one commit at its
\* end (the step of upload_start that builds the commit), or resets it to the
\* empty list (the step of upload_finish that reads the submission answer);
\* no entry is removed on its own, replaced or moved.
C18_AppendOrClearOnly ==
    [][\/ upload_session' = upload_session
       \/ \E t \in Tasks :
             /\ pc[t] = "up_parse" /\ pc'[t] = "idle"
             /\ upload_session'.earlier = upload_session.earlier
             /\ Len(upload_session'.recent) = Len(upload_session.recent) + 1
             /\ SubSeq(upload_session'.recent, 1, Len(upload_session.recent))
                   = upload_session.recent
             /\ outcome'[t].kind = "returned"
             /\ Last(upload_session'.recent) = Last(outcome'[t].value.recent)
       \/ \E t \in Tasks :
             /\ pc[t] = "fin_parse" /\ pc'[t] # "fin_parse"
             /\ upload_session' = NoBatch
      ]_vars

\* a commit was appended, then submitted, and the batch has been reset
C18_Witness ==
    /\ upload_session = NoBatch
    /\ \E id \in submitted : id >= 1

\* C19: under every interleaving, an entry that leaves the batch has been in
\* the body of a finish_batch request before: no commit is dropped
\* unsubmitted.
C19_NoCommitLost ==
    [][(EntryIds(upload_session) \ EntryIds(upload_session')) \subseteq submitted
      ]_vars

\* C20: under every interleaving no entry is in the body of more than one
\* finish_batch request; in particular two upload_finish calls that are under
\* way at the same time hold no entry in common in the bodies they sent.
C20_NoCommitSubmittedTwice ==
    \A t \in Tasks, u \in Tasks :
        (/\ t # u
         /\ op[t] = "finish" /\ pc[t] # "idle"
         /\ op[u] = "finish" /\ pc[u] # "idle")
          => EntryIds(loc[t].data.entries) \cap EntryIds(loc[u].data.entries) = {}

\* the largest value of x and y
Max(x, y) == IF x >= y THEN x ELSE y

\* C21 as stated: the attempt counter of a RequestContext is raised by one
\* for each request sent, the first request being attempt 1, and never
\* exceeds retry_count; the call ends after at most retry_count requests.
C21_AttemptsWithinRetryCount ==
    /\ [][\A t \in Tasks :
            (op'[t] = "exec" /\ network'[t] # NoReq /\ network'[t] # network[t])
               => /\ ctx'[t].current_attempt =
                        (IF op[t] = "exec" THEN ctx[t].current_attempt ELSE 0) + 1
                  /\ network'[t].attempt = ctx'[t].current_attempt
         ]_vars
    /\ [](\A t \in Tasks :
            op[t] = "exec" =>
               /\ ctx[t].current_attempt <= ctx[t].retry_count
               /\ Len(ctx[t].hist) <= ctx[t].retry_count)
    /\ \A t \in Tasks :
          (op[t] = "exec") ~> (pc[t] = "idle" /\ outcome[t].kind # "none")

\* C21 amended: the same, with the bound retry_count for retry_count of 1 or
\* more, and one request when retry_count is below 1.
C21_AttemptsWithinBound ==
    /\ [][\A t \in Tasks :
            (op'[t] = "exec" /\ network'[t] # NoReq /\ network'[t] # network[t])
               => /\ ctx'[t].current_attempt =
                        (IF op[t] = "exec" THEN ctx[t].current_attempt ELSE 0) + 1
                  /\ network'[t].attempt = ctx'[t].current_attempt
         ]_vars
    /\ [](\A t \in Tasks :
            op[t] = "exec" =>
               /\ ctx[t].current_attempt <= Max(ctx[t].retry_count, 1)
               /\ Len(ctx[t].hist) <= Max(ctx[t].retry_count, 1))
    /\ \A t \in Tasks :
          (op[t] = "exec") ~> (pc[t] = "idle" /\ outcome[t].kind # "none")

\* every one of the three allowed attempts was answered with a status to
\* retry, and the call has ended
C21_Witness ==
    \E t \in Tasks :
        /\ op[t] = "exec" /\ pc[t] = "idle"
        /\ outcome[t].kind # "none"
        /\ ctx[t].retry_count = 3
        /\ ctx[t].current_attempt = 3
        /\ Len(ctx[t].sleeps) = 2

\* C22: every sleep before a retry lasts the seconds the Retry-After header
\* of the response that caused the retry gives, and 1 second when that
\* response has no such header.
C22_BackoffFollowsRetryAfter ==
    \A t \in Tasks :
        op[t] = "exec" =>
            LET c == ctx[t]
            IN  /\ Len(c.sleeps) <= Len(c.afters)
                /\ Len(c.afters) = Len(c.hist)
                /\ \A i \in 1..Len(c.sleeps) :
                      c.sleeps[i] = (IF c.afters[i] # <<>> THEN c.afters[i][1]
                                     ELSE 1)

\* a call has slept twice: after a response with Retry-After: 2 and after one
\* without the header
C22_Witness ==
    \E t \in Tasks :
        /\ op[t] = "exec"
        /\ ctx[t].sleeps = <<2, 1>>
        /\ ctx[t].afters[1] = <<2>> /\ ctx[t].afters[2] = <<>>

\* C23: once the scope of a request has ended, by a return and the exit of
\* the async with, by a DropboxApiError, also after a later attempt took the
\* place of an earlier one, no response the request obtained is open any
\* more.
C23_NoResponseLeftOpen ==
    \A t \in Tasks :
        (/\ op[t] \in {"with", "upload", "finish"}
         /\ ~(pc[t] \in {"req_wait", "req_sleep", "with_body"}))
          => ctx[t].open = {}

\* C24: a response whose tag is not a known one ends the call with a
\* DropboxApiError: the answer to finish_batch with a tag other than complete
\* and async_job_id, and the answer to a check with a tag other than
\* in_progress and complete, after which no further check is made.
C24_UnknownTagRaises ==
    [][\A t \in Tasks :
         /\ (/\ pc[t] = "fin_parse"
             /\ pc'[t] # "fin_parse"
             /\ ~(ParseBody(ctx[t].resp).tag \in {"complete", "async_job_id"}))
              => (pc'[t] = "idle" /\ outcome'[t].kind = "DropboxApiError")
         /\ (/\ pc[t] = "chk_parse"
             /\ pc'[t] # "chk_parse"
             /\ ~(ParseBody(ctx[t].resp).tag \in {"in_progress", "complete"}))
              => (pc'[t] = "idle" /\ outcome'[t].kind = "DropboxApiError")]_vars

\* C25: when the finish_batch request of upload_finish ends with a
\* DropboxApiError, the batch is what it was when the call began, with no
\* entry removed, and the next upload_finish sends exactly these entries.
C25_FailedSubmissionKeepsBatch ==
    [][\A t \in Tasks :
         /\ (/\ pc[t] \in {"req_wait", "req_sleep"}
             /\ ctx[t].endpoint = "finish"
             /\ pc'[t] = "idle")
              => /\ outcome'[t].kind = "DropboxApiError"
                 /\ upload_session' = upload_session
                 /\ Serialise(upload_session') = loc[t].data
         /\ (/\ pc[t] = "idle"
             /\ op[t] = "finish"
             /\ outcome[t].kind = "DropboxApiError"
             /\ outcome[t].status >= ErrorStatus
             /\ pc'[t] = "req_wait"
             /\ op'[t] = "finish")
              => /\ ctx'[t].body = Serialise(upload_session)
                 /\ network'[t].body = Serialise(upload_session)]_vars

\* an upload_finish has ended with the error status of its request and the
\* batch still has entries
C25_Witness ==
    \E t \in Tasks :
        /\ op[t] = "finish"
        /\ pc[t] = "idle"
        /\ outcome[t].kind = "DropboxApiError"
        /\ outcome[t].status >= ErrorStatus
        /\ EntryIds(upload_session) # {}

\* C26: an upload_start whose session-start request ends with a
\* DropboxApiError, or which is cancelled before the append, or which ends
\* with any other error, leaves the batch as it was; no step of the call
\* before the append changes the batch, and the batch grows only in the step
\* of a call whose request has returned a session id, by the commit of that
\* session.
C26_FailedUploadAppendsNothing ==
    [][/\ \A t \in Tasks :
            (/\ op'[t] = "upload"
             /\ <<pc'[t], outcome'[t]>> # <<pc[t], outcome[t]>>
             /\ outcome'[t].kind # "returned")
              => upload_session' = upload_session
       /\ ~(upload_session' \in {upload_session, NoBatch})
              => \E t \in Tasks :
                    /\ pc[t] = "up_parse"
                    /\ ctx[t].resp.session_id # 0
                    /\ RespOk(ctx[t].resp) \/ ctx[t].resp.status \in ctx[t].accepted
                    /\ outcome'[t].kind = "returned"
                    /\ upload_session' =
                         AppendCommit(upload_session,
                                      Commit(ctx[t].resp.session_id,
                                             loc[t].local_path))]_vars

\* an upload_start has ended with the error of its request, or was cancelled
\* before the append, and the batch holds the commit of an earlier call
C26_Witness ==
    \E t \in Tasks :
        /\ op[t] = "upload"
        /\ pc[t] = "idle"
        /\ \/ outcome[t].kind = "DropboxApiError"
           \/ outcome[t].kind = "CancelledError"
        /\ EntryIds(upload_session) # {0}
        /\ EntryIds(upload_session) # {}

\* C27: within one call of the request executor made by the client, no
\* request of upload_session/start, finish_batch or finish_batch/check is
\* sent more than allowed_retries times, whatever allowed_retries the client
\* was constructed with.
C27_AttemptsWithinAllowedRetries ==
    \A t \in Tasks :
        ctx[t].endpoint \in {"start", "finish", "check"}
          => ctx[t].current_attempt <= allowed_retries

====
